---- MODULE Spec2Model ----
(***************************************************************************)
(* A model of GapBuffer<T> (src/src/lib.rs) and of the calls a client can  *)
(* make on it.  The backing Vec<T> is a sequence of slots, one per unit of *)
(* capacity; physical index i of the source is slot i + 1 here.  A slot    *)
(* holds the bits last written to it: an element, or Uninit for memory     *)
(* that was allocated and never written.  Elements are owned values, so    *)
(* each one is a distinct identity (a positive number).                    *)
(***************************************************************************)
EXTENDS Integers, Sequences, FiniteSets

VARIABLES
    gb,       \* the GapBuffer: [buffer : slots, gap : [start, end]]
    alive,    \* FALSE once the GapBuffer has been dropped
    owned,    \* the elements the buffer is responsible for
    drops,    \* drops[e]: how many times e's destructor has run
    next_id,  \* the next element a caller creates
    call,     \* the last call made: [op, idx, elems]
    ret,      \* what the last call gave back to its caller
    old,      \* gb as it was when the last call started
    tally,    \* how many elements new() took, how many insert calls were
              \* made, how many remove calls took an element out, and how
              \* many times enlarge ran
    pc        \* how many of main's calls on gb were made; -1 when the
              \* client is not main

vars == <<gb, alive, owned, drops, next_id, call, ret, old, tally, pc>>

----------------------------------------------------------------------------
(* Bounds of the model.                                                    *)

\* the longest Vec handed to new()
MaxInit == 2
\* how many elements are ever created (by the callers of new, insert and
\* insert_iter together); it bounds the capacity too, which only grows in an
\* insert
MaxElems == 3
\* the same for a caller that only inserts and moves the cursor
MaxInserted == 5
\* how far past len() the indices handed to set_position and get_ref_pos go
MaxOver == 2

----------------------------------------------------------------------------
(* The program's constant and its memory primitives.                       *)

GAP_SIZE == 2

\* the content of a slot that was allocated and never written
Uninit == 0

\* the element format!("h{}", n) of main
H(n) == n + 1

Elems == (1..(MaxElems + MaxInserted)) \cup {H(n) : n \in 0..12}

\* Vec::with_capacity(cap): cap slots, none of them written.  For an element
\* type of non-zero size the allocation holds exactly cap slots, which is
\* what capacity() then reports.
with_capacity(cap) == [i \in 1..cap |-> Uninit]

\* Vec::capacity
capacity(buffer) == Len(buffer)

\* the slot at physical index i
At(buffer, i) == buffer[i + 1]

\* std::ptr::copy_nonoverlapping(src + s, dst + d, count), src and dst being
\* two allocations
copy_nonoverlapping(src, s, dst, d, count) ==
    [i \in 1..Len(dst) |->
        IF d < i /\ i <= d + count THEN src[i - d + s] ELSE dst[i]]

\* a copy that walks forward slot by slot inside one allocation: what a
\* non-overlapping copy does to ranges that overlap
RECURSIVE copy_forward(_, _, _, _)
copy_forward(buffer, s, d, count) ==
    IF count = 0 THEN buffer
    ELSE copy_forward([buffer EXCEPT ![d + 1] = buffer[s + 1]],
                      s + 1, d + 1, count - 1)

\* std::ptr::copy(src, dst, count) inside one allocation: every source slot
\* is read before any destination slot is written (memmove)
copy(buffer, s, d, count) ==
    [i \in 1..Len(buffer) |->
        IF d < i /\ i <= d + count THEN buffer[i - d + s] ELSE buffer[i]]

\* std::ptr::write(buffer + i, elem)
write(buffer, i, elem) == [buffer EXCEPT ![i + 1] = elem]

\* Range<usize>::len
RangeLen(gap) == IF gap.start < gap.end THEN gap.end - gap.start ELSE 0

----------------------------------------------------------------------------
(* What a call gives back to its caller.                                   *)

\* a call that returns ()
Unit == [kind |-> "unit", val |-> 0, msg |-> ""]

\* panic!(msg)
Panic(m) == [kind |-> "panic", val |-> 0, msg |-> m]

\* a reference to a slot holding v
Ref(v) == [kind |-> "ref", val |-> v, msg |-> ""]

\* a usize
Usize(n) == [kind |-> "usize", val |-> n, msg |-> ""]

\* the result of a method: the GapBuffer after it, what the caller gets, and
\* the elements whose destructor ran during it, in order
Result(self, r, dropped) == [self |-> self, ret |-> r, dropped |-> dropped]

----------------------------------------------------------------------------
(* GapBuffer<T>.                                                           *)

GapBuffer(buffer, gap) == [buffer |-> buffer, gap |-> gap]

\* GapBuffer::new with its copy landing at offset 0 instead of gap.end
new_at_front(data) ==
    LET buffer == with_capacity(Len(data) + GAP_SIZE)
        gap == [start |-> 0, end |-> GAP_SIZE]
    IN  GapBuffer(copy_nonoverlapping(data, 0, buffer, 0, Len(data)), gap)

\* GapBuffer::new
new(data) ==
    LET buffer == with_capacity(Len(data) + GAP_SIZE)
        gap == [start |-> 0, end |-> GAP_SIZE]
    IN  GapBuffer(copy_nonoverlapping(data, 0, buffer, gap.end, Len(data)), gap)

\* GapBuffer::data_len
data_len(self) == capacity(self.buffer) - RangeLen(self.gap)

\* GapBuffer::len
len(self) == data_len(self)

\* GapBuffer::translate_idx
translate_idx(self, idx) ==
    IF idx < self.gap.start THEN idx ELSE idx + RangeLen(self.gap)

\* src, dst and count of set_position with the destination of a move to the
\* left computed from gap.end instead of the gap length
relocation_dst_from_end(self, idx) ==
    IF idx < self.gap.start
    THEN [src |-> idx, dst |-> idx + self.gap.end,
          count |-> self.gap.start - idx]
    ELSE [src |-> self.gap.end, dst |-> self.gap.start,
          count |-> translate_idx(self, idx) - self.gap.end]

\* src, dst and count of set_position, as physical indices
relocation(self, idx) ==
    IF idx < self.gap.start
    THEN [src |-> idx, dst |-> idx + RangeLen(self.gap),
          count |-> self.gap.start - idx]
    ELSE [src |-> self.gap.end, dst |-> self.gap.start,
          count |-> translate_idx(self, idx) - self.gap.end]

\* the relocation of set_position with the new gap.end taken from the old
\* gap.end instead of the gap length
relocate_end_from_end(self, idx) ==
    LET r == relocation(self, idx)
        gap == [start |-> idx, end |-> idx + self.gap.end]
    IN  GapBuffer(copy(self.buffer, r.src, r.dst, r.count), gap)

\* the relocation of set_position: the gap is reassigned, then the block
\* [src, src + count) is moved to dst
relocate(self, idx) ==
    LET r == relocation(self, idx)
        gap == [start |-> idx, end |-> idx + RangeLen(self.gap)]
    IN  GapBuffer(copy(self.buffer, r.src, r.dst, r.count), gap)

\* GapBuffer::set_position with the gap reassigned before the bounds check
set_position_late_check(self, idx) ==
    IF idx > data_len(self)
    THEN Result(GapBuffer(self.buffer,
                          [start |-> idx, end |-> idx + RangeLen(self.gap)]),
                Panic("index out of bounds"), <<>>)
    ELSE Result(relocate(self, idx), Unit, <<>>)

\* GapBuffer::set_position
set_position(self, idx) ==
    IF idx > data_len(self)
    THEN Result(self, Panic("index out of bounds"), <<>>)
    ELSE Result(relocate(self, idx), Unit, <<>>)

\* GapBuffer::remove without its check of gap.end against the capacity
remove_unchecked(self) ==
    Result(GapBuffer(self.buffer, [self.gap EXCEPT !.end = self.gap.end + 1]),
           Unit,
           IF self.gap.end < capacity(self.buffer)
           THEN <<At(self.buffer, self.gap.end)>> ELSE <<>>)

\* GapBuffer::remove taking the element before the cursor instead of the
\* one after it
remove_before_cursor(self) ==
    IF self.gap.start = 0
    THEN Result(self, Unit, <<>>)
    ELSE Result(GapBuffer(self.buffer,
                          [self.gap EXCEPT !.start = self.gap.start - 1]),
                Unit, <<At(self.buffer, self.gap.start - 1)>>)

\* GapBuffer::remove: the value read out of the slot at gap.end is a
\* temporary of the statement and is dropped there; the method returns ()
remove(self) ==
    IF self.gap.end = capacity(self.buffer)
    THEN Result(self, Unit, <<>>)
    ELSE Result(GapBuffer(self.buffer,
                          [self.gap EXCEPT !.end = self.gap.end + 1]),
                Unit, <<At(self.buffer, self.gap.end)>>)

\* GapBuffer::enlarge with the old suffix copied to the offset of the old
\* capacity instead of gap.start + capacity
enlarge_suffix_at_capacity(self) ==
    LET cap == capacity(self.buffer)
        new_buffer == with_capacity(cap * 2)
        prefix == copy_nonoverlapping(self.buffer, 0, new_buffer, 0,
                                      self.gap.start)
        both == copy_nonoverlapping(self.buffer, self.gap.start, prefix,
                                    cap, cap - self.gap.start)
    IN  GapBuffer(both, [self.gap EXCEPT !.end = self.gap.start + cap])

\* GapBuffer::enlarge adding GAP_SIZE slots instead of doubling the capacity
enlarge_by_gap_size(self) ==
    LET cap == capacity(self.buffer)
        new_buffer == with_capacity(cap + GAP_SIZE)
        prefix == copy_nonoverlapping(self.buffer, 0, new_buffer, 0,
                                      self.gap.start)
        both == copy_nonoverlapping(self.buffer, self.gap.start, prefix,
                                    self.gap.start + GAP_SIZE,
                                    cap - self.gap.start)
    IN  GapBuffer(both, [self.gap EXCEPT !.end = self.gap.start + GAP_SIZE])

\* GapBuffer::enlarge with the new gap.end set to the old capacity instead
\* of gap.start + capacity
enlarge_gap_end_at_capacity(self) ==
    LET cap == capacity(self.buffer)
        new_buffer == with_capacity(cap * 2)
        prefix == copy_nonoverlapping(self.buffer, 0, new_buffer, 0,
                                      self.gap.start)
        both == copy_nonoverlapping(self.buffer, self.gap.start, prefix,
                                    self.gap.start + cap,
                                    cap - self.gap.start)
    IN  GapBuffer(both, [self.gap EXCEPT !.end = cap])

\* GapBuffer::enlarge
enlarge(self) ==
    LET cap == capacity(self.buffer)
        new_buffer == with_capacity(cap * 2)
        prefix == copy_nonoverlapping(self.buffer, 0, new_buffer, 0,
                                      self.gap.start)
        both == copy_nonoverlapping(self.buffer, self.gap.start, prefix,
                                    self.gap.start + cap,
                                    cap - self.gap.start)
    IN  GapBuffer(both, [self.gap EXCEPT !.end = self.gap.start + cap])

\* GapBuffer::insert writing at the back of the gap, so that the cursor
\* stays before the new element
insert_keeps_cursor(self, elem) ==
    LET grown == IF RangeLen(self.gap) = 0 THEN enlarge(self) ELSE self
    IN  GapBuffer(write(grown.buffer, grown.gap.end - 1, elem),
                  [grown.gap EXCEPT !.end = grown.gap.end - 1])

\* GapBuffer::insert growing the buffer when the write is going to use the
\* last gap slot, not only when the gap is empty
insert_grows_early(self, elem) ==
    LET grown == IF RangeLen(self.gap) <= 1 THEN enlarge(self) ELSE self
    IN  GapBuffer(write(grown.buffer, grown.gap.start, elem),
                  [grown.gap EXCEPT !.start = grown.gap.start + 1])

\* GapBuffer::insert without its self.gap.start += 1
insert_over_cursor(self, elem) ==
    LET grown == IF RangeLen(self.gap) = 0 THEN enlarge(self) ELSE self
    IN  GapBuffer(write(grown.buffer, grown.gap.start, elem), grown.gap)

\* GapBuffer::insert
insert(self, elem) ==
    LET grown == IF RangeLen(self.gap) = 0 THEN enlarge(self) ELSE self
    IN  GapBuffer(write(grown.buffer, grown.gap.start, elem),
                  [grown.gap EXCEPT !.start = grown.gap.start + 1])

\* GapBuffer::insert_iter taking the elements from the back of the iterator
RECURSIVE insert_iter_rev(_, _)
insert_iter_rev(self, elems) ==
    IF elems = <<>> THEN self
    ELSE insert_iter_rev(insert(self, elems[Len(elems)]),
                         SubSeq(elems, 1, Len(elems) - 1))

\* GapBuffer::insert_iter
RECURSIVE insert_iter(_, _)
insert_iter(self, elems) ==
    IF elems = <<>> THEN self
    ELSE insert_iter(insert(self, Head(elems)), Tail(elems))

\* how many times insert_iter(self, elems) finds the gap empty and calls
\* enlarge
RECURSIVE enlarge_calls(_, _)
enlarge_calls(self, elems) ==
    IF elems = <<>> THEN 0
    ELSE (IF RangeLen(self.gap) = 0 THEN 1 ELSE 0)
         + enlarge_calls(insert(self, Head(elems)), Tail(elems))

\* GapBuffer::get_ref_pos taking the logical index for the physical one
get_ref_pos_untranslated(self, idx) == idx

\* GapBuffer::get_ref_pos: the slot the reference points at
get_ref_pos(self, idx) == translate_idx(self, idx)

\* the slots [0, gap.start) of the two loops of Drop::drop and Display::fmt
prefix(self) == SubSeq(self.buffer, 1, self.gap.start)

\* the slots [gap.end, capacity) of the same loops
suffix(self) == SubSeq(self.buffer, self.gap.end + 1, capacity(self.buffer))

\* Drop for GapBuffer running the destructor over every slot of the
\* allocation, the gap included
drop_every_slot(self) == self.buffer

\* Drop for GapBuffer: the elements whose destructor runs, in order
drop(self) == prefix(self) \o suffix(self)

----------------------------------------------------------------------------
(* The client: it builds one GapBuffer and calls its methods in any order. *)

Range(s) == {s[i] : i \in 1..Len(s)}

\* the n elements a caller creates next
Fresh(n) == [i \in 1..n |-> next_id + i - 1]

\* a call, and whether it is a set_position that repeats the index of a
\* set_position made just before it
Call(op, idx, elems) ==
    [op |-> op, idx |-> idx, elems |-> elems,
     again |-> op = "set_position" /\ call.op = "set_position"
               /\ call.idx = idx]

\* one more run of the destructor of each element of dropped
Dropped(dropped) ==
    [e \in Elems |->
        drops[e] + Cardinality({i \in 1..Len(dropped) : dropped[i] = e})]

\* let gb = GapBuffer::new(data)
Init ==
    \E n \in 0..MaxInit :
        LET data == [i \in 1..n |-> i] IN
        /\ gb = new(data)
        /\ alive = TRUE
        /\ owned = Range(data)
        /\ drops = [e \in Elems |-> 0]
        /\ next_id = n + 1
        /\ call = [op |-> "new", idx |-> 0, elems |-> data, again |-> FALSE]
        /\ ret = Unit
        /\ old = new(data)
        /\ tally = [init |-> n, inserts |-> 0, removed |-> 0, grows |-> 0]
        /\ pc = -1

\* gb.set_position(idx)
SetPosition ==
    /\ alive
    /\ \E idx \in 0..(data_len(gb) + MaxOver) :
        LET r == set_position(gb, idx) IN
        /\ gb' = r.self
        /\ ret' = r.ret
        /\ call' = Call("set_position", idx, <<>>)
    /\ old' = gb
    /\ UNCHANGED <<alive, owned, drops, next_id, tally, pc>>

\* gb.remove()
Remove ==
    /\ alive
    /\ LET r == remove(gb) IN
        /\ gb' = r.self
        /\ ret' = r.ret
        /\ owned' = owned \ Range(r.dropped)
        /\ drops' = Dropped(r.dropped)
    /\ call' = Call("remove", 0, <<>>)
    /\ old' = gb
    /\ tally' = [tally EXCEPT !.removed =
                    @ + (IF gb.gap.end < capacity(gb.buffer) THEN 1 ELSE 0)]
    /\ UNCHANGED <<alive, next_id, pc>>

\* gb.insert(elem), while fewer than limit elements were created
Insert(limit) ==
    /\ alive
    /\ next_id <= limit
    /\ LET elem == next_id IN
        /\ gb' = insert(gb, elem)
        /\ owned' = owned \cup {elem}
        /\ call' = Call("insert", 0, <<elem>>)
        /\ tally' = [tally EXCEPT !.inserts = @ + 1,
                                  !.grows = @ + enlarge_calls(gb, <<elem>>)]
    /\ next_id' = next_id + 1
    /\ ret' = Unit
    /\ old' = gb
    /\ UNCHANGED <<alive, drops, pc>>

\* gb.insert_iter(elems), creating no more than limit elements in all
InsertIter(limit) ==
    /\ alive
    /\ \E n \in 0..(limit + 1 - next_id) :
        LET elems == Fresh(n) IN
        /\ gb' = insert_iter(gb, elems)
        /\ owned' = owned \cup Range(elems)
        /\ call' = Call("insert_iter", 0, elems)
        /\ tally' = [tally EXCEPT !.inserts = @ + n,
                                  !.grows = @ + enlarge_calls(gb, elems)]
        /\ next_id' = next_id + n
    /\ ret' = Unit
    /\ old' = gb
    /\ UNCHANGED <<alive, drops, pc>>

\* gb.get_ref_pos(idx) with idx < len(): the reference points into the
\* allocation
GetRefPos ==
    /\ alive
    /\ \E idx \in 0..(data_len(gb) - 1) :
        /\ ret' = Ref(At(gb.buffer, get_ref_pos(gb, idx)))
        /\ call' = Call("get_ref_pos", idx, <<>>)
    /\ old' = gb
    /\ UNCHANGED <<gb, alive, owned, drops, next_id, tally, pc>>

\* gb.get_ref_pos(idx) with idx >= len(): no check is made, and the
\* reference points past the allocation; what is behind it is whatever the
\* build leaves there, or nothing the process may touch
GetRefPosPastEnd ==
    /\ alive
    /\ \E idx \in data_len(gb)..(data_len(gb) + MaxOver - 1) :
        /\ get_ref_pos(gb, idx) >= capacity(gb.buffer)
        /\ \E v \in 0..(next_id - 1) :
              ret' \in {Ref(v), [kind |-> "fault", val |-> 0, msg |-> ""]}
        /\ call' = Call("get_ref_pos", idx, <<>>)
    /\ old' = gb
    /\ UNCHANGED <<gb, alive, owned, drops, next_id, tally, pc>>

\* gb.len()
LenCall ==
    /\ alive
    /\ ret' = Usize(len(gb))
    /\ call' = Call("len", 0, <<>>)
    /\ old' = gb
    /\ UNCHANGED <<gb, alive, owned, drops, next_id, tally, pc>>

\* gb goes out of scope
DropCall ==
    /\ alive
    /\ alive' = FALSE
    /\ drops' = Dropped(drop(gb))
    /\ owned' = {}
    /\ call' = Call("drop", 0, <<>>)
    /\ ret' = Unit
    /\ old' = gb
    /\ UNCHANGED <<gb, next_id, tally, pc>>

Next ==
    \/ SetPosition
    \/ Remove
    \/ Insert(MaxElems)
    \/ InsertIter(MaxElems)
    \/ GetRefPos
    \/ GetRefPosPastEnd
    \/ LenCall
    \/ DropCall

Spec == Init /\ [][Next]_vars

\* a client that edits by inserting only: it never removes, reads or drops
NextInsert ==
    \/ SetPosition
    \/ Insert(MaxInserted)
    \/ InsertIter(MaxInserted)

SpecInsert == Init /\ [][NextInsert]_vars

----------------------------------------------------------------------------
(* main: the calls it makes on gb, in order, with reads of gb in between.  *)

\* let data = (0..).take(7).map(|n| format!("h{}", n))
MainData == [i \in 1..7 |-> H(i - 1)]

\* the calls of main on gb, in order
Script ==
    << [op |-> "set_position", idx |-> 4, elems |-> <<>>],
       [op |-> "remove", idx |-> 0, elems |-> <<>>],
       [op |-> "set_position", idx |-> 6, elems |-> <<>>],
       [op |-> "remove", idx |-> 0, elems |-> <<>>],
       [op |-> "set_position", idx |-> 0, elems |-> <<>>],
       [op |-> "remove", idx |-> 0, elems |-> <<>>],
       [op |-> "insert", idx |-> 0, elems |-> <<H(0)>>],
       [op |-> "set_position", idx |-> 4, elems |-> <<>>],
       [op |-> "insert", idx |-> 0, elems |-> <<H(4)>>],
       [op |-> "set_position", idx |-> 7, elems |-> <<>>],
       [op |-> "insert", idx |-> 0, elems |-> <<H(7)>>],
       [op |-> "insert_iter", idx |-> 0,
        elems |-> [i \in 1..5 |-> H(i + 7)]] >>

\* let mut gb = GapBuffer::new(data)
InitMain ==
    /\ gb = new(MainData)
    /\ alive = TRUE
    /\ owned = Range(MainData)
    /\ drops = [e \in Elems |-> 0]
    /\ next_id = H(12) + 1
    /\ call = [op |-> "new", idx |-> 0, elems |-> MainData, again |-> FALSE]
    /\ ret = Unit
    /\ old = new(MainData)
    /\ tally = [init |-> Len(MainData), inserts |-> 0, removed |-> 0,
                grows |-> 0]
    /\ pc = 0

\* the next call of main, when it is a set_position
MainSetPosition ==
    /\ alive
    /\ pc < Len(Script)
    /\ Script[pc + 1].op = "set_position"
    /\ LET r == set_position(gb, Script[pc + 1].idx) IN
        /\ gb' = r.self
        /\ ret' = r.ret
    /\ call' = Call("set_position", Script[pc + 1].idx, <<>>)
    /\ old' = gb
    /\ pc' = pc + 1
    /\ UNCHANGED <<alive, owned, drops, next_id, tally>>

\* the next call of main, when it is a remove
MainRemove ==
    /\ alive
    /\ pc < Len(Script)
    /\ Script[pc + 1].op = "remove"
    /\ LET r == remove(gb) IN
        /\ gb' = r.self
        /\ ret' = r.ret
        /\ owned' = owned \ Range(r.dropped)
        /\ drops' = Dropped(r.dropped)
    /\ call' = Call("remove", 0, <<>>)
    /\ old' = gb
    /\ tally' = [tally EXCEPT !.removed =
                    @ + (IF gb.gap.end < capacity(gb.buffer) THEN 1 ELSE 0)]
    /\ pc' = pc + 1
    /\ UNCHANGED <<alive, next_id>>

\* the next call of main, when it is an insert or an insert_iter
MainInsert ==
    /\ alive
    /\ pc < Len(Script)
    /\ Script[pc + 1].op \in {"insert", "insert_iter"}
    /\ LET elems == Script[pc + 1].elems IN
        /\ gb' = IF Script[pc + 1].op = "insert"
                 THEN insert(gb, elems[1]) ELSE insert_iter(gb, elems)
        /\ owned' = owned \cup Range(elems)
        /\ call' = Call(Script[pc + 1].op, 0, elems)
        /\ tally' = [tally EXCEPT !.inserts = @ + Len(elems),
                                  !.grows = @ + enlarge_calls(gb, elems)]
    /\ ret' = Unit
    /\ old' = gb
    /\ pc' = pc + 1
    /\ UNCHANGED <<alive, drops, next_id>>

\* the end of main: gb goes out of scope
MainEnd ==
    /\ pc = Len(Script)
    /\ DropCall

NextMain ==
    \/ MainSetPosition
    \/ MainRemove
    \/ MainInsert
    \/ MainEnd
    \/ GetRefPos
    \/ LenCall

SpecMain == InitMain /\ [][NextMain]_vars

----------------------------------------------------------------------------
(* Vocabulary of the properties.                                           *)

\* the logical sequence: the prefix followed by the suffix
Logical(self) == prefix(self) \o suffix(self)

\* s without its i-th element
RemoveAt(s, i) == SubSeq(s, 1, i - 1) \o SubSeq(s, i + 1, Len(s))

\* s with the elements of t placed before its i-th element
InsertAt(s, i, t) == SubSeq(s, 1, i - 1) \o t \o SubSeq(s, i, Len(s))

\* the physical indices of the gap
GapSlots(self) == {i \in 0..(capacity(self.buffer) - 1) :
                      self.gap.start <= i /\ i < self.gap.end}

\* whether the blocks [src, src + count) and [dst, dst + count) of a
\* relocation r have a slot in common
Overlap(r) ==
    \E i \in r.src..(r.src + r.count - 1) :
        r.dst <= i /\ i < r.dst + r.count

\* the number of elements a set_position(idx) moves: |idx - gap_start|
Distance(self, idx) ==
    IF idx < self.gap.start THEN self.gap.start - idx
    ELSE idx - self.gap.start

\* an Option<T> holding v, and the empty one
Some(v) == [kind |-> "some", val |-> v, msg |-> ""]
None == [kind |-> "none", val |-> 0, msg |-> ""]

----------------------------------------------------------------------------
\* C1: after new() and after every public call, in any order,
\* 0 <= gap_start <= gap_end <= capacity, and len() is
\* capacity - (gap_end - gap_start).
C1_GapWithinCapacity ==
    /\ 0 <= gb.gap.start
    /\ gb.gap.start <= gb.gap.end
    /\ gb.gap.end <= capacity(gb.buffer)
    /\ len(gb) = capacity(gb.buffer) - (gb.gap.end - gb.gap.start)

\* a remove() has just taken the last element after the cursor, with
\* elements left before it
C1_Witness ==
    /\ call.op = "remove"
    /\ old.gap.end < capacity(old.buffer)
    /\ gb.gap.end = capacity(gb.buffer)
    /\ gb.gap.start > 0

\* C2: in every state the calls can reach, every slot outside the gap holds
\* a live element, each live element is in exactly one such slot, and no
\* live element is left in the gap only: the slots outside the gap hold
\* exactly the elements the buffer owns, once each, and whatever a gap slot
\* holds is not an element the buffer owns there.
C2_LiveSlotsOutsideGap ==
    alive =>
        LET live == Logical(gb) IN
        /\ \A i \in 1..Len(live) : live[i] # Uninit
        /\ \A i, j \in 1..Len(live) : live[i] = live[j] => i = j
        /\ Range(live) = owned
        /\ Len(live) = Cardinality(owned)
        /\ \A i \in GapSlots(gb) :
              At(gb.buffer, i) \in owned => At(gb.buffer, i) \in Range(live)

\* a set_position() has left in the gap the bits of an element that now
\* lives outside it
C2_Witness ==
    /\ alive
    /\ call.op = "set_position"
    /\ gb.gap.start > 0
    /\ gb.gap.end < capacity(gb.buffer)
    /\ \E i \in GapSlots(gb) : At(gb.buffer, i) \in owned

\* C3: new(S) of the N elements S has capacity N + GAP_SIZE and the gap
\* [0, GAP_SIZE), its logical sequence is S in order, len() is N and reading
\* the positions 0..N-1 gives S back.
C3_NewRoundTrip ==
    call.op = "new" =>
        LET S == call.elems IN
        /\ capacity(gb.buffer) = Len(S) + GAP_SIZE
        /\ gb.gap = [start |-> 0, end |-> GAP_SIZE]
        /\ Logical(gb) = S
        /\ len(gb) = Len(S)
        /\ \A idx \in 0..(Len(S) - 1) :
              At(gb.buffer, get_ref_pos(gb, idx)) = S[idx + 1]

\* a buffer just built from two elements or more
C3_Witness ==
    /\ call.op = "new"
    /\ Len(call.elems) >= 2
    /\ len(gb) = Len(call.elems)

\* C4: set_position(idx) with idx <= len() ends with gap_start = idx and the
\* gap [idx, idx + gap_length); the gap length, the capacity and the logical
\* sequence are what they were.
C4_SetPositionMovesGap ==
    (call.op = "set_position" /\ call.idx <= len(old)) =>
        /\ ret = Unit
        /\ gb.gap.start = call.idx
        /\ gb.gap.end = call.idx + (old.gap.end - old.gap.start)
        /\ RangeLen(gb.gap) = RangeLen(old.gap)
        /\ capacity(gb.buffer) = capacity(old.buffer)
        /\ Logical(gb) = Logical(old)

\* the cursor has moved left over more elements than the gap is long, so
\* the block moved overlaps its destination
C4_Witness ==
    /\ call.op = "set_position"
    /\ call.idx < old.gap.start
    /\ RangeLen(old.gap) > 0
    /\ old.gap.start - call.idx > RangeLen(old.gap)
    /\ gb.gap.start = call.idx

\* C5: set_position(idx) with idx > len() fails with "index out of bounds"
\* and leaves gap_start, gap_end, the capacity and every slot as they were.
C5_SetPositionOutOfBounds ==
    (call.op = "set_position" /\ call.idx > len(old)) =>
        /\ ret = Panic("index out of bounds")
        /\ gb.gap = old.gap
        /\ capacity(gb.buffer) = capacity(old.buffer)
        /\ gb.buffer = old.buffer

\* a set_position() past the end of a buffer that holds elements on both
\* sides of the gap
C5_Witness ==
    /\ call.op = "set_position"
    /\ call.idx > len(old)
    /\ ret.kind = "panic"
    /\ old.gap.start > 0
    /\ old.gap.end < capacity(old.buffer)

\* C6: remove() with gap_end < capacity advances gap_end by one, leaves
\* gap_start and the capacity alone, makes len() one less, and the logical
\* sequence is the one before without its element at index gap_start.
C6_RemoveDeletesAfterCursor ==
    (call.op = "remove" /\ old.gap.end < capacity(old.buffer)) =>
        /\ gb.gap.end = old.gap.end + 1
        /\ gb.gap.start = old.gap.start
        /\ capacity(gb.buffer) = capacity(old.buffer)
        /\ len(gb) = len(old) - 1
        /\ Logical(gb) = RemoveAt(Logical(old), old.gap.start + 1)

\* a remove() has taken an element that had neighbours on both sides
C6_Witness ==
    /\ call.op = "remove"
    /\ old.gap.end < capacity(old.buffer)
    /\ old.gap.start > 0
    /\ gb.gap.end < capacity(gb.buffer)
    /\ len(gb) = len(old) - 1

\* C7: remove() with gap_end < capacity returns the removed element, the
\* one that was at physical index gap_end, as a present value.
C7_RemoveReturnsElement ==
    (call.op = "remove" /\ old.gap.end < capacity(old.buffer)) =>
        ret = Some(At(old.buffer, old.gap.end))

\* C8: remove() with gap_end = capacity returns the absent value, raises no
\* error and changes nothing.
C8_RemoveAtEndReturnsNone ==
    (call.op = "remove" /\ old.gap.end = capacity(old.buffer)) =>
        /\ ret = None
        /\ gb = old
        /\ len(gb) = len(old)

\* C9: insert(e) at cursor c ends with gap_start = c + 1 and len() one more,
\* and the logical sequence is the one before with e placed at index c.
C9_InsertAtCursor ==
    call.op = "insert" =>
        LET c == old.gap.start IN
        /\ gb.gap.start = c + 1
        /\ len(gb) = len(old) + 1
        /\ Logical(gb) = InsertAt(Logical(old), c + 1, call.elems)

\* an insert() that had to grow a buffer holding elements on both sides of
\* the cursor
C9_Witness ==
    /\ call.op = "insert"
    /\ capacity(gb.buffer) > capacity(old.buffer)
    /\ old.gap.start > 0
    /\ old.gap.start < capacity(old.buffer)
    /\ gb.gap.start = old.gap.start + 1

\* C10: insert_iter(E) of k elements at cursor c leaves E, in order, at the
\* logical indices c..c+k-1, the cursor at c + k, the elements before c and
\* those from c on around the run in their previous order.
C10_InsertIterRun ==
    call.op = "insert_iter" =>
        LET c == old.gap.start
            E == call.elems
        IN  /\ gb.gap.start = c + Len(E)
            /\ len(gb) = len(old) + Len(E)
            /\ Logical(gb) = InsertAt(Logical(old), c + 1, E)

\* an insert_iter() of three elements or more during which the buffer grew
\* after some of the run was already in, with elements on both sides of the
\* cursor
C10_Witness ==
    /\ call.op = "insert_iter"
    /\ Len(call.elems) >= 3
    /\ RangeLen(old.gap) > 0
    /\ capacity(gb.buffer) > capacity(old.buffer)
    /\ old.gap.start > 0
    /\ old.gap.end < capacity(old.buffer)

----------------------------------------------------------------------------
\* C11: get_ref_pos(idx) with idx < len() reads the slot idx when
\* idx < gap_start and the slot idx + gap_length otherwise; that slot is
\* outside the gap and below the capacity, it holds the idx-th element of
\* the logical sequence, and the call changes no state.
C11_GetRefPosReadsLogical ==
    (call.op = "get_ref_pos" /\ call.idx < len(old)) =>
        LET slot == IF call.idx < old.gap.start THEN call.idx
                    ELSE call.idx + (old.gap.end - old.gap.start)
        IN  /\ get_ref_pos(old, call.idx) = slot
            /\ slot \notin GapSlots(old)
            /\ slot < capacity(old.buffer)
            /\ ret = Ref(At(old.buffer, slot))
            /\ ret = Ref(Logical(old)[call.idx + 1])
            /\ gb = old

\* a read of an element that lies after a gap which has elements before it
C11_Witness ==
    /\ call.op = "get_ref_pos"
    /\ call.idx < len(old)
    /\ call.idx >= old.gap.start
    /\ old.gap.start > 0
    /\ RangeLen(old.gap) > 0
    /\ ret.kind = "ref"

\* C12: get_ref_pos(idx) with idx >= len() fails with a checked
\* index-out-of-bounds error, and reads no slot inside the gap or at a
\* physical index >= capacity.
C12_GetRefPosChecked ==
    (call.op = "get_ref_pos" /\ call.idx >= len(old)) =>
        /\ ret = Panic("index out of bounds")
        /\ get_ref_pos(old, call.idx) < capacity(old.buffer)
        /\ get_ref_pos(old, call.idx) \notin GapSlots(old)

\* C13: every element that entered the buffer (through new or insert) is
\* disposed of exactly once, by the remove() that takes it out or by the
\* teardown, which runs over the slots outside the gap only: no destructor
\* runs twice, and once the buffer is dropped no element is left over.
C13_DisposedExactlyOnce ==
    /\ \A e \in Elems : drops[e] <= 1
    /\ \A e \in Elems : e >= next_id => drops[e] = 0
    /\ alive => \A e \in 1..(next_id - 1) : (drops[e] = 0 <=> e \in owned)
    /\ ~alive =>
        /\ \A e \in 1..(next_id - 1) : drops[e] = 1
        /\ Len(Logical(gb)) + tally.removed = next_id - 1
        /\ \A i \in 1..Len(Logical(gb)) : Logical(gb)[i] \in 1..(next_id - 1)

\* a buffer dropped after a remove(), with elements left in it and the bits
\* of an element still in its gap
C13_Witness ==
    /\ ~alive
    /\ tally.removed >= 1
    /\ Len(Logical(gb)) >= 1
    /\ \E i \in GapSlots(gb) : At(gb.buffer, i) # Uninit

\* C14: set_position(k) with k <= len(), called twice in a row, leaves the
\* logical sequence and len() as they were, and the second call changes
\* nothing: the gap and every slot are as the first call left them, the
\* relocation moving no element.
C14_RepeatedSetPosition ==
    (call.op = "set_position" /\ call.again /\ call.idx <= len(old)) =>
        /\ ret = Unit
        /\ gb.gap = old.gap
        /\ gb.buffer = old.buffer
        /\ relocation(old, call.idx).count = 0
        /\ Logical(gb) = Logical(old)
        /\ len(gb) = len(old)

\* the second of two set_position(k) in a row, k inside a buffer with
\* elements on both sides of it
C14_Witness ==
    /\ call.op = "set_position"
    /\ call.again
    /\ call.idx <= len(old)
    /\ call.idx > 0
    /\ call.idx < len(old)
    /\ gb.gap.start = call.idx

\* C15: from a buffer built by new(), after M >= 1 insert calls and no
\* remove call (set_position calls in between or not), every growth event
\* has doubled the capacity, and there were no more than 1 + log2(M) of
\* them, that is 2^(growths - 1) <= M.
C15_GrowthIsLogarithmic ==
    (tally.inserts >= 1 /\ tally.removed = 0) =>
        /\ capacity(gb.buffer) = (tally.init + GAP_SIZE) * 2^tally.grows
        /\ tally.grows >= 1 => 2^(tally.grows - 1) <= tally.inserts
        /\ call.op = "insert" =>
              \/ capacity(gb.buffer) = capacity(old.buffer)
              \/ capacity(gb.buffer) = 2 * capacity(old.buffer)

\* the cursor has been moved in a buffer that has grown twice
C15_Witness ==
    /\ tally.inserts >= 1
    /\ tally.removed = 0
    /\ tally.grows = 2
    /\ call.op = "set_position"
    /\ capacity(gb.buffer) = 4 * (tally.init + GAP_SIZE)

\* C16: the worked scenario.  From new([h0..h6]): set_position(4), then
\* remove() returns h4 and leaves [h0,h1,h2,h3,h5,h6]; set_position(6), then
\* remove() returns absent; set_position(0), then remove() returns h0 and
\* leaves [h1,h2,h3,h5,h6]; insert(h0), set_position(4), insert(h4),
\* set_position(7), insert(h7) and insert_iter([h8..h12]) give h0..h12; no
\* set_position is refused.
C16_WorkedScenario ==
    /\ (call.op = "set_position" /\ pc >= 1) => ret = Unit
    /\ (pc = 2 /\ call.op = "remove") => ret = Some(H(4))
    /\ pc = 2 => Logical(gb) = <<H(0), H(1), H(2), H(3), H(5), H(6)>>
    /\ (pc = 4 /\ call.op = "remove") => ret = None
    /\ pc = 4 => Logical(gb) = <<H(0), H(1), H(2), H(3), H(5), H(6)>>
    /\ (pc = 6 /\ call.op = "remove") => ret = Some(H(0))
    /\ pc = 6 => Logical(gb) = <<H(1), H(2), H(3), H(5), H(6)>>
    /\ pc = 7 => Logical(gb) = <<H(0), H(1), H(2), H(3), H(5), H(6)>>
    /\ pc = 9 => Logical(gb) = [i \in 1..7 |-> H(i - 1)]
    /\ pc = 11 => Logical(gb) = [i \in 1..8 |-> H(i - 1)]
    /\ pc = 12 => Logical(gb) = [i \in 1..13 |-> H(i - 1)]

----------------------------------------------------------------------------
\* C17: a growth step on a buffer of capacity C whose gap is empty at
\* gap_start = s gives capacity 2*C, gap_start = s and gap_end = s + C (a
\* gap of C slots), the old prefix [0, s) at the same offsets, the old
\* suffix [s, C) at [s + C, 2*C) in the same order, and the same logical
\* sequence and len(); the insert that asked for it then writes at s.
C17_EnlargeStep ==
    (call.op = "insert" /\ RangeLen(old.gap) = 0) =>
        LET C == capacity(old.buffer)
            s == old.gap.start
            grown == enlarge(old)
        IN  /\ capacity(grown.buffer) = 2 * C
            /\ grown.gap.start = s
            /\ grown.gap.end = s + C
            /\ RangeLen(grown.gap) = C
            /\ \A i \in 0..(s - 1) : At(grown.buffer, i) = At(old.buffer, i)
            /\ \A i \in s..(C - 1) :
                  At(grown.buffer, i + C) = At(old.buffer, i)
            /\ Logical(grown) = Logical(old)
            /\ len(grown) = len(old)
            /\ gb.buffer = write(grown.buffer, s, call.elems[1])
            /\ gb.gap = [start |-> s + 1, end |-> s + C]
            /\ capacity(gb.buffer) = 2 * C

\* the second growth of a buffer, with elements on both sides of the cursor
C17_Witness ==
    /\ call.op = "insert"
    /\ RangeLen(old.gap) = 0
    /\ tally.grows = 2
    /\ old.gap.start > 0
    /\ old.gap.start < capacity(old.buffer)
    /\ gb.gap.end = old.gap.start + capacity(old.buffer)

\* the buffer as each insert of the call finds it: the one insert of an
\* insert call, the successive ones of an insert_iter call
C18_Writes ==
    IF call.op \in {"insert", "insert_iter"}
    THEN {insert_iter(old, SubSeq(call.elems, 1, k)) :
              k \in 0..(Len(call.elems) - 1)}
    ELSE {}

\* C18: the slot an insert writes is a gap slot (gap_start < gap_end when
\* the write is made, so no live element is overwritten), and the capacity
\* changes only inside an insert that finds the gap empty: an insert with a
\* non-empty gap, set_position, remove, get_ref_pos and len leave it alone,
\* and it never decreases.
C18_CapacityChangesOnlyOnGrowth ==
    /\ capacity(gb.buffer) >= capacity(old.buffer)
    /\ capacity(gb.buffer) # capacity(old.buffer) =>
          \E self \in C18_Writes : RangeLen(self.gap) = 0
    /\ (call.op = "insert" /\ RangeLen(old.gap) > 0) =>
          capacity(gb.buffer) = capacity(old.buffer)
    /\ call.op \in {"set_position", "remove", "get_ref_pos", "len"} =>
          capacity(gb.buffer) = capacity(old.buffer)
    /\ \A self \in C18_Writes :
          LET grown == IF RangeLen(self.gap) = 0 THEN enlarge(self)
                       ELSE self
              after == insert(self, call.elems[len(self) - len(old) + 1])
          IN  /\ grown.gap.start < grown.gap.end
              /\ grown.gap.start \in GapSlots(grown)
              /\ capacity(after.buffer) = capacity(grown.buffer)
              /\ \A i \in 0..(capacity(grown.buffer) - 1) :
                    i \notin GapSlots(grown) =>
                        At(after.buffer, i) = At(grown.buffer, i)
              /\ (RangeLen(self.gap) > 0) =>
                    capacity(after.buffer) = capacity(self.buffer)
    /\ call.op = "insert" =>
          /\ gb.gap.start <= gb.gap.end
          /\ Logical(gb) = InsertAt(Logical(old), old.gap.start + 1,
                                    call.elems)

\* an insert_iter whose first insert uses the last gap slot and whose
\* second one finds the gap empty and grows the buffer
C18_Witness ==
    /\ call.op = "insert_iter"
    /\ Len(call.elems) = 2
    /\ RangeLen(old.gap) = 1
    /\ capacity(gb.buffer) = 2 * capacity(old.buffer)

\* C19, as stated: in an accepted set_position, the source and destination
\* ranges of the relocation overlap when the number of elements relocated,
\* |idx - gap_start|, is smaller than the gap length.
C19_OverlapWhenSmaller ==
    (/\ call.op = "set_position"
     /\ call.idx <= len(old)
     /\ Distance(old, call.idx) >= 1
     /\ Distance(old, call.idx) < RangeLen(old.gap)) =>
        Overlap(relocation(old, call.idx))

\* C19, amended: in an accepted set_position the relocation moves
\* |idx - gap_start| elements, and its source and destination ranges
\* overlap exactly when that number is larger than the gap length; up to
\* the gap length they are disjoint.  The move is overlap-safe either way.
C19_OverlapWhenLarger ==
    (call.op = "set_position" /\ call.idx <= len(old)) =>
        LET r == relocation(old, call.idx) IN
        /\ r.count = Distance(old, call.idx)
        /\ Overlap(r) <=> Distance(old, call.idx) > RangeLen(old.gap)
        /\ r.dst = IF call.idx < old.gap.start THEN r.src + RangeLen(old.gap)
                   ELSE r.src - RangeLen(old.gap)
        /\ gb.buffer = copy(old.buffer, r.src, r.dst, r.count)
        /\ ~Overlap(r) =>
              gb.buffer = copy_nonoverlapping(old.buffer, r.src, old.buffer,
                                              r.dst, r.count)
        /\ Logical(gb) = Logical(old)

\* the cursor has moved right over more elements than the gap is long, the
\* gap not being empty
C19_Witness ==
    /\ call.op = "set_position"
    /\ call.idx <= len(old)
    /\ call.idx > old.gap.start
    /\ RangeLen(old.gap) >= 1
    /\ Overlap(relocation(old, call.idx))
    /\ gb.gap.start = call.idx

\* C20: on a buffer built from N elements, len() is N plus the number of
\* insert calls made (those of insert_iter included) minus the number of
\* remove calls made while gap_end < capacity; set_position, accepted or
\* refused, growth steps and remove calls at gap_end = capacity add nothing.
C20_LenCountsInsertsAndRemoves ==
    /\ len(gb) = tally.init + tally.inserts - tally.removed
    /\ call.op = "set_position" => len(gb) = len(old)
    /\ (call.op = "remove" /\ old.gap.end = capacity(old.buffer)) =>
          len(gb) = len(old)
    /\ (call.op = "remove" /\ old.gap.end < capacity(old.buffer)) =>
          len(gb) = len(old) - 1
    /\ call.op \in {"insert", "insert_iter"} =>
          len(gb) = len(old) + Len(call.elems)

\* a remove() at gap_end = capacity, made after a growth step and a remove()
\* that took an element out
C20_Witness ==
    /\ call.op = "remove"
    /\ old.gap.end = capacity(old.buffer)
    /\ tally.grows >= 1
    /\ tally.removed >= 1
    /\ tally.inserts >= 1

====
